---- MODULE Spec2Model ----
(***************************************************************************)
(* The TSL -> CNF encoder of src/src/cnf_encoder.py: the variable          *)
(* registry, the index built from the IR, the four clause emitters, the    *)
(* guard compiler (tokenizer, shunting-yard, Tseitin) and the DIMACS       *)
(* serializer.                                                             *)
(*                                                                         *)
(* Representation.  A Python str used as a name is a TLA+ string; a guard  *)
(* is a sequence of one-character strings (the tokenizer scans it          *)
(* character by character).  An insertion-ordered dict is a sequence of    *)
(* records with a key field.  A registry label, an f-string in the source, *)
(* is the record of the parts the f-string is built from.  A DIMACS line   *)
(* is the sequence of its space-separated decimal tokens.                  *)
(***************************************************************************)
EXTENDS Integers, Sequences, FiniteSets, TLC

VARIABLES
    pc,                     \* position of the caller: new, group, props, conds, tuples, cover, write, done, error
    j,                      \* index of the outermost loop of the running pass
    ir, t, k, group_policy, require_full_coverage, strict_conditions, antonyms,
    clauses, next_var, name_to_id, id_to_name,
    groups, option_to_group, property_to_options,
    option_var_cache, property_var_cache, t_tuple_to_cov,
    output,                 \* what encode() returned: the header numbers and the clause lines
    error                   \* the exception that left encode(), "" when none

vars == <<pc, j, ir, t, k, group_policy, require_full_coverage, strict_conditions,
          antonyms, clauses, next_var, name_to_id, id_to_name, groups,
          option_to_group, property_to_options, option_var_cache,
          property_var_cache, t_tuple_to_cov, output, error>>

config == <<ir, t, k, group_policy, require_full_coverage, strict_conditions, antonyms>>
index == <<groups, option_to_group, property_to_options>>

-----------------------------------------------------------------------------
(* Bounds of the explored inputs *)

MaxK == 2
MaxT == 3
MaxLen == 4

-----------------------------------------------------------------------------
(* Generic helpers for ordered dicts and sequences *)

Range(s) == { s[i] : i \in DOMAIN s }

\* position of key x in an ordered dict d (sequence of records with field key), 0 when absent
KeyPos(d, x) ==
    IF \E i \in DOMAIN d : d[i].key = x
    THEN CHOOSE i \in DOMAIN d : d[i].key = x
    ELSE 0

\* d[x] = v on an ordered dict: replaces in place, else appends
DictSet(d, x, v) ==
    IF KeyPos(d, x) = 0
    THEN Append(d, [key |-> x, val |-> v])
    ELSE [d EXCEPT ![KeyPos(d, x)] = [key |-> x, val |-> v]]

RECURSIVE DictUpdate(_, _)
\* d.update(e)
DictUpdate(d, e) ==
    IF e = <<>> THEN d
    ELSE DictUpdate(DictSet(d, Head(e).key, Head(e).val), Tail(e))

\* function f with f[x] = v added or overwritten
FnSet(f, x, v) == [y \in DOMAIN f \cup {x} |-> IF y = x THEN v ELSE f[y]]

EmptyFn == [x \in {} |-> 0]

-----------------------------------------------------------------------------
(* The IR: option and group records *)

NoCond == <<>>

Opt(name, property, condition, single, err) ==
    [name |-> name, property |-> property, condition |-> condition,
     single |-> single, error |-> err]

Plain(name) == Opt(name, "", NoCond, FALSE, FALSE)

Group(name, options) == [key |-> name, val |-> [options |-> options]]

-----------------------------------------------------------------------------
(* Variable registry.  The registry and the clause accumulator travel      *)
(* through a pass as the record r.                                         *)

Label(kind, name, num) == [kind |-> kind, name |-> name, num |-> num]

Registry ==
    [clauses |-> clauses, next_var |-> next_var, name_to_id |-> name_to_id,
     id_to_name |-> id_to_name, option_var_cache |-> option_var_cache,
     property_var_cache |-> property_var_cache]

new_var(r, label) ==
    IF label \in DOMAIN r.name_to_id
    THEN [r |-> r, v |-> r.name_to_id[label]]
    ELSE [r |-> [r EXCEPT !.next_var = @ + 1,
                          !.name_to_id = FnSet(@, label, r.next_var),
                          !.id_to_name = FnSet(@, r.next_var, label)],
          v |-> r.next_var]

fresh_aux(r, prefix) == new_var(r, Label(prefix, <<>>, r.next_var))

opt_var(r, opt, slot) ==
    IF <<opt, slot>> \notin DOMAIN r.option_var_cache
    THEN LET nv == new_var(r, Label("v", <<opt>>, slot))
         IN  [r |-> [nv.r EXCEPT !.option_var_cache = FnSet(@, <<opt, slot>>, nv.v)],
              v |-> nv.v]
    ELSE [r |-> r, v |-> r.option_var_cache[<<opt, slot>>]]

prop_var(r, prop, slot) ==
    IF <<prop, slot>> \notin DOMAIN r.property_var_cache
    THEN LET nv == new_var(r, Label("p", <<prop>>, slot))
         IN  [r |-> [nv.r EXCEPT !.property_var_cache = FnSet(@, <<prop, slot>>, nv.v)],
              v |-> nv.v]
    ELSE [r |-> r, v |-> r.property_var_cache[<<prop, slot>>]]

\* add() that keeps the literals and drops the terminator it is handed
add_literals_only(r, lits) ==
    [r EXCEPT !.clauses = Append(@, SubSeq(lits, 1, Len(lits) - 1))]

add(r, lits) == [r EXCEPT !.clauses = Append(@, lits)]

RECURSIVE add_all(_, _)
\* for c in cls: self.add(*c, 0)
add_all(r, cls) ==
    IF cls = <<>> THEN r ELSE add_all(add(r, Head(cls) \o <<0>>), Tail(cls))

RECURSIVE opt_vars(_, _, _, _)
\* [ self._opt_var(o, j) for o in opts ], left to right, continuing from acc
opt_vars(r, opts, slot, acc) ==
    IF opts = <<>> THEN [r |-> r, vs |-> acc]
    ELSE LET ov == opt_var(r, Head(opts), slot)
         IN  opt_vars(ov.r, Tail(opts), slot, Append(acc, ov.v))

Neg(vs) == [i \in DOMAIN vs |-> 0 - vs[i]]

-----------------------------------------------------------------------------
(* Index builder *)

RECURSIVE collect_options(_, _, _)
\* the inner loop of _collect_ir over one group's options; ix = [names, o2g, p2o]
collect_options(ix, gname, opts) ==
    IF opts = <<>> THEN ix
    ELSE LET o == Head(opts)
             p2o == IF o.property # ""
                    THEN LET pos == KeyPos(ix.p2o, o.property)
                         IN  IF pos = 0
                             THEN Append(ix.p2o, [key |-> o.property, val |-> <<o.name>>])
                             ELSE [ix.p2o EXCEPT ![pos].val = Append(@, o.name)]
                    ELSE ix.p2o
         IN  collect_options([names |-> Append(ix.names, o.name),
                              o2g |-> FnSet(ix.o2g, o.name, gname),
                              p2o |-> p2o],
                             gname, Tail(opts))

RECURSIVE collect_groups(_, _)
\* the outer loop of _collect_ir; ix = [groups, o2g, p2o]
collect_groups(ix, all_groups) ==
    IF all_groups = <<>> THEN ix
    ELSE LET g == Head(all_groups)
             got == collect_options([names |-> <<>>, o2g |-> ix.o2g, p2o |-> ix.p2o],
                                    g.key, g.val.options)
         IN  collect_groups([groups |-> DictSet(ix.groups, g.key, got.names),
                             o2g |-> got.o2g, p2o |-> got.p2o],
                            Tail(all_groups))

collect_ir(the_ir) ==
    collect_groups([groups |-> <<>>, o2g |-> EmptyFn, p2o |-> <<>>],
                   DictUpdate(DictUpdate(<<>>, the_ir.parameters), the_ir.environments))

group_data(the_ir, gname) ==
    IF KeyPos(the_ir.parameters, gname) # 0
    THEN the_ir.parameters[KeyPos(the_ir.parameters, gname)].val
    ELSE IF KeyPos(the_ir.environments, gname) # 0
         THEN the_ir.environments[KeyPos(the_ir.environments, gname)].val
         ELSE [options |-> <<>>]

-----------------------------------------------------------------------------
(* itertools and sorted *)

RECURSIVE combinations(_, _, _)
\* itertools.combinations(range(lo, n + 1), r): index tuples in lexicographic order
combinations(lo, n, r) ==
    IF r = 0 THEN << <<>> >>
    ELSE IF lo > n THEN <<>>
    ELSE LET with == combinations(lo + 1, n, r - 1)
         IN  [i \in DOMAIN with |-> <<lo>> \o with[i]] \o combinations(lo + 1, n, r)

RECURSIVE product(_)
\* itertools.product(*lists): the rightmost list advances fastest
product(lists) ==
    IF lists = <<>> THEN << <<>> >>
    ELSE LET rest == product(Tail(lists))
             first == Head(lists)
             n == Len(rest)
         IN  [i \in 1..(Len(first) * n) |->
                 <<first[((i - 1) \div n) + 1]>> \o rest[((i - 1) % n) + 1]]

\* the names of the explored IRs in the order Python compares str values
NameOrder == <<"a1", "a2", "b1", "b2", "x", "y", "z">>

NameRank(s) == CHOOSE i \in DOMAIN NameOrder : NameOrder[i] = s

RECURSIVE insert_sorted(_, _)
insert_sorted(s, x) ==
    IF s = <<>> THEN <<x>>
    ELSE IF NameRank(x) < NameRank(Head(s)) THEN <<x>> \o s
    ELSE <<Head(s)>> \o insert_sorted(Tail(s), x)

RECURSIVE sorted(_)
\* sorted(tup) (stable; equal names stay in order)
sorted(tup) ==
    IF tup = <<>> THEN <<>>
    ELSE insert_sorted(sorted(SubSeq(tup, 1, Len(tup) - 1)), tup[Len(tup)])

-----------------------------------------------------------------------------
(* Group constraint emitter: the body of the slot loop *)

\* next((o2.get('single') for o2 in options if o2['name'] == o), False)
first_single(options, o) ==
    IF \E i \in DOMAIN options : options[i].name = o
    THEN LET i == CHOOSE i \in DOMAIN options :
                     /\ options[i].name = o
                     /\ \A i2 \in 1..(i - 1) : options[i2].name # o
         IN  options[i].single
    ELSE FALSE

resolve_policy(policy, the_ir, gname, opts) ==
    IF policy = "auto"
    THEN IF \E i \in DOMAIN opts :
               first_single(group_data(the_ir, gname).options, opts[i])
         THEN "exactly-one" ELSE "at-most-one"
    ELSE policy

RECURSIVE add_amo(_, _, _)
\* for a, b in itertools.combinations(kvars, 2): self.add(-a, -b, 0)
add_amo(r, kvars, pairs) ==
    IF pairs = <<>> THEN r
    ELSE add_amo(add(r, <<0 - kvars[Head(pairs)[1]], 0 - kvars[Head(pairs)[2]], 0>>),
                 kvars, Tail(pairs))

RECURSIVE add_error_bans(_, _, _)
add_error_bans(r, options, slot) ==
    IF options = <<>> THEN r
    ELSE IF Head(options).error
         THEN LET ov == opt_var(r, Head(options).name, slot)
              IN  add_error_bans(add(ov.r, <<0 - ov.v, 0>>), Tail(options), slot)
         ELSE add_error_bans(r, Tail(options), slot)

group_constraints_one(r, the_ir, policy, gname, opts, slot) ==
    LET kv == opt_vars(r, opts, slot, <<>>)
        resolved == resolve_policy(policy, the_ir, gname, opts)
        alo == IF resolved = "exactly-one" THEN add(kv.r, kv.vs \o <<0>>) ELSE kv.r
        amo == add_amo(alo, kv.vs, combinations(1, Len(kv.vs), 2))
    IN  add_error_bans(amo, group_data(the_ir, gname).options, slot)

RECURSIVE emit_group_constraints(_, _, _, _, _)
\* one iteration of "for j in range(1, self.k + 1)" over the groups gs
emit_group_constraints(r, the_ir, policy, gs, slot) ==
    IF gs = <<>> THEN r
    ELSE emit_group_constraints(
             group_constraints_one(r, the_ir, policy, Head(gs).key, Head(gs).val, slot),
             the_ir, policy, Tail(gs), slot)

-----------------------------------------------------------------------------
(* Property linker: the body of the slot loop *)

RECURSIVE add_option_implies(_, _, _)
\* for o in opts: self.add(-self._opt_var(o, j), p, 0)
add_option_implies(r, vs, p) ==
    IF vs = <<>> THEN r
    ELSE add_option_implies(add(r, <<0 - Head(vs), p, 0>>), Tail(vs), p)

\* the linker without the clause "property implies some asserting option"
property_link_forward_only(r, prop, opts, slot) ==
    LET pv == prop_var(r, prop, slot)
        kv == opt_vars(pv.r, opts, slot, <<>>)
    IN  add_option_implies(kv.r, kv.vs, pv.v)

property_link_one(r, prop, opts, slot) ==
    LET pv == prop_var(r, prop, slot)
        kv == opt_vars(pv.r, opts, slot, <<>>)
        fwd == add_option_implies(kv.r, kv.vs, pv.v)
    IN  add(fwd, <<0 - pv.v>> \o kv.vs \o <<0>>)

RECURSIVE link_properties(_, _, _)
link_properties(r, p2o, slot) ==
    IF p2o = <<>> THEN r
    ELSE link_properties(property_link_one(r, Head(p2o).key, Head(p2o).val, slot),
                         Tail(p2o), slot)

\* the canonical key tuple(sorted((a, b))) of an antonym pair, as a set
pair_key(pair) == {pair[1], pair[2]}

RECURSIVE antonym_pairs(_, _)
\* the de-duplicating loop of antonym_pairs over the items of the mapping
antonym_pairs(items, out) ==
    IF items = <<>> THEN out
    ELSE IF \E i \in DOMAIN out : pair_key(out[i]) = pair_key(Head(items))
         THEN antonym_pairs(Tail(items), out)
         ELSE antonym_pairs(Tail(items), Append(out, Head(items)))

RECURSIVE add_antonyms(_, _, _)
add_antonyms(r, pairs, slot) ==
    IF pairs = <<>> THEN r
    ELSE LET pa == prop_var(r, Head(pairs)[1], slot)
             pb == prop_var(pa.r, Head(pairs)[2], slot)
         IN  add_antonyms(add(pb.r, <<0 - pa.v, 0 - pb.v, 0>>), Tail(pairs), slot)

emit_property_links(r, p2o, ants, slot) ==
    add_antonyms(link_properties(r, p2o, slot), antonym_pairs(ants, <<>>), slot)

-----------------------------------------------------------------------------
(* Condition parser: tokenizer *)

IsSpace(c) == c = " "

\* s.startswith(a + b, i), with i counting from 1
StartsWith(s, i, a, b) == i + 1 <= Len(s) /\ s[i] = a /\ s[i + 1] = b

RECURSIVE Slice(_, _, _)
\* s[i:j] as a str: the characters at positions i .. j-1 (from 1)
Slice(s, i, jj) == IF i >= jj THEN "" ELSE s[i] \o Slice(s, i + 1, jj)

RECURSIVE ident_end_keeps_punctuation(_, _)
\* the identifier scan that stops only at whitespace and at "&&" or "||"
ident_end_keeps_punctuation(s, jj) ==
    IF /\ jj <= Len(s)
       /\ ~IsSpace(s[jj])
       /\ ~StartsWith(s, jj, "&", "&")
       /\ ~StartsWith(s, jj, "|", "|")
    THEN ident_end_keeps_punctuation(s, jj + 1)
    ELSE jj

RECURSIVE ident_end(_, _)
\* the inner while loop of tokenize: the position after the identifier
ident_end(s, jj) ==
    IF /\ jj <= Len(s)
       /\ ~IsSpace(s[jj])
       /\ ~StartsWith(s, jj, "&", "&")
       /\ ~StartsWith(s, jj, "|", "|")
       /\ s[jj] \notin {"!", "(", ")"}
    THEN ident_end(s, jj + 1)
    ELSE jj

RECURSIVE tokenize_from(_, _, _)
tokenize_from(s, i, tokens) ==
    IF i > Len(s) THEN tokens
    ELSE IF IsSpace(s[i]) THEN tokenize_from(s, i + 1, tokens)
    ELSE IF StartsWith(s, i, "&", "&") THEN tokenize_from(s, i + 2, Append(tokens, "&&"))
    ELSE IF StartsWith(s, i, "|", "|") THEN tokenize_from(s, i + 2, Append(tokens, "||"))
    ELSE IF s[i] \in {"!", "(", ")"} THEN tokenize_from(s, i + 1, Append(tokens, s[i]))
    ELSE tokenize_from(s, ident_end(s, i), Append(tokens, Slice(s, i, ident_end(s, i))))

tokenize(s) == tokenize_from(s, 1, <<>>)

RECURSIVE strip(_)
\* expr.strip()
strip(s) ==
    IF s = <<>> THEN s
    ELSE IF IsSpace(Head(s)) THEN strip(Tail(s))
    ELSE IF IsSpace(s[Len(s)]) THEN strip(SubSeq(s, 1, Len(s) - 1))
    ELSE s

-----------------------------------------------------------------------------
(* Condition parser: shunting-yard *)

prec(tk) == CASE tk = "!" -> 3 [] tk = "&&" -> 2 [] tk = "||" -> 1

right_assoc == {"!"}

Last(s) == s[Len(s)]
Pop(s) == SubSeq(s, 1, Len(s) - 1)

RECURSIVE pop_higher(_, _)
\* the while loop run on an operator token tk; st = [out, op]
pop_higher(st, tk) ==
    IF /\ st.op # <<>>
       /\ Last(st.op) # "("
       /\ \/ prec(Last(st.op)) > prec(tk)
          \/ prec(Last(st.op)) = prec(tk) /\ tk \notin right_assoc
    THEN pop_higher([out |-> Append(st.out, Last(st.op)), op |-> Pop(st.op)], tk)
    ELSE st

RECURSIVE pop_to_paren(_)
\* while op and op[-1] != '(': out.append(op.pop())
pop_to_paren(st) ==
    IF st.op # <<>> /\ Last(st.op) # "("
    THEN pop_to_paren([out |-> Append(st.out, Last(st.op)), op |-> Pop(st.op)])
    ELSE st

RECURSIVE drain(_)
\* the final while loop of to_rpn
drain(st) ==
    IF st.op = <<>> THEN [err |-> "", rpn |-> st.out]
    ELSE IF Last(st.op) \in {"(", ")"}
         THEN [err |-> "ValueError: mismatched parens in condition", rpn |-> <<>>]
    ELSE drain([out |-> Append(st.out, Last(st.op)), op |-> Pop(st.op)])

RECURSIVE to_rpn_from(_, _)
to_rpn_from(tokens, st) ==
    IF tokens = <<>> THEN drain(st)
    ELSE LET tk == Head(tokens)
         IN  IF tk \in {"&&", "||", "!"}
             THEN LET popped == pop_higher(st, tk)
                  IN  to_rpn_from(Tail(tokens),
                                  [out |-> popped.out, op |-> Append(popped.op, tk)])
             ELSE IF tk = "("
             THEN to_rpn_from(Tail(tokens), [out |-> st.out, op |-> Append(st.op, tk)])
             ELSE IF tk = ")"
             THEN LET popped == pop_to_paren(st)
                  IN  IF popped.op = <<>>
                      THEN [err |-> "ValueError: mismatched ) in condition", rpn |-> <<>>]
                      ELSE to_rpn_from(Tail(tokens),
                                       [out |-> popped.out, op |-> Pop(popped.op)])
             ELSE to_rpn_from(Tail(tokens), [out |-> Append(st.out, tk), op |-> st.op])

to_rpn(tokens) == to_rpn_from(tokens, [out |-> <<>>, op |-> <<>>])

-----------------------------------------------------------------------------
(* Condition parser: Tseitin walk *)

\* get_atom_var of _emit_conditions
get_atom_var(r, atom_name, slot, p2o, strict) ==
    IF KeyPos(p2o, atom_name) = 0 /\ strict
    THEN [err |-> "KeyError: unknown property in condition", r |-> r, v |-> 0]
    ELSE LET pv == prop_var(r, atom_name, slot)
         IN  [err |-> "", r |-> pv.r, v |-> pv.v]

\* z = self.new_var() in rpn_to_tseitin.  _emit_conditions hands the parser the
\* bound method self._fresh_aux, which takes a required argument prefix; the
\* call passes none, so Python raises TypeError before anything is allocated.
parser_new_var(r) ==
    [err |-> "TypeError: _fresh_aux() missing 1 required positional argument",
     r |-> r, v |-> 0]

RECURSIVE rpn_walk(_, _, _, _, _)
\* the for loop of rpn_to_tseitin; w = [r, stk, cls]
rpn_walk(w, rpn, slot, p2o, strict) ==
    IF rpn = <<>>
    THEN IF Len(w.stk) # 1
         THEN [err |-> "ValueError: invalid condition expression",
               r |-> w.r, top |-> 0, cls |-> <<>>]
         ELSE [err |-> "", r |-> w.r, top |-> w.stk[1], cls |-> w.cls]
    ELSE LET tk == Head(rpn)
         IN  IF tk = "!"
             THEN IF Len(w.stk) < 1
                  THEN [err |-> "IndexError: pop from empty list",
                        r |-> w.r, top |-> 0, cls |-> <<>>]
                  ELSE LET a == Last(w.stk)
                           z == parser_new_var(w.r)
                       IN  IF z.err # ""
                           THEN [err |-> z.err, r |-> z.r, top |-> 0, cls |-> <<>>]
                           ELSE rpn_walk([r |-> z.r,
                                          stk |-> Append(Pop(w.stk), z.v),
                                          cls |-> w.cls \o << <<z.v, a>>, <<0 - z.v, 0 - a>> >>],
                                         Tail(rpn), slot, p2o, strict)
             ELSE IF tk \in {"&&", "||"}
             THEN IF Len(w.stk) < 2
                  THEN [err |-> "IndexError: pop from empty list",
                        r |-> w.r, top |-> 0, cls |-> <<>>]
                  ELSE LET b == Last(w.stk)
                           a == Last(Pop(w.stk))
                           z == parser_new_var(w.r)
                       IN  IF z.err # ""
                           THEN [err |-> z.err, r |-> z.r, top |-> 0, cls |-> <<>>]
                           ELSE rpn_walk([r |-> z.r,
                                          stk |-> Append(Pop(Pop(w.stk)), z.v),
                                          cls |-> w.cls \o
                                              (IF tk = "&&"
                                               THEN << <<0 - z.v, a>>, <<0 - z.v, b>>,
                                                       <<z.v, 0 - a, 0 - b>> >>
                                               ELSE << <<z.v, 0 - a>>, <<z.v, 0 - b>>,
                                                       <<0 - z.v, a, b>> >>)],
                                         Tail(rpn), slot, p2o, strict)
             ELSE LET v == get_atom_var(w.r, tk, slot, p2o, strict)
                  IN  IF v.err # ""
                      THEN [err |-> v.err, r |-> v.r, top |-> 0, cls |-> <<>>]
                      ELSE rpn_walk([r |-> v.r, stk |-> Append(w.stk, v.v), cls |-> w.cls],
                                    Tail(rpn), slot, p2o, strict)

rpn_to_tseitin(r, rpn, slot, p2o, strict) ==
    rpn_walk([r |-> r, stk |-> <<>>, cls |-> <<>>], rpn, slot, p2o, strict)

encode_condition(r, expr, slot, p2o, strict) ==
    IF strip(expr) = <<>>
    THEN [err |-> "", r |-> r, top |-> 0, cls |-> <<>>]
    ELSE LET rpn == to_rpn(tokenize(strip(expr)))
         IN  IF rpn.err # ""
             THEN [err |-> rpn.err, r |-> r, top |-> 0, cls |-> <<>>]
             ELSE rpn_to_tseitin(r, rpn.rpn, slot, p2o, strict)

-----------------------------------------------------------------------------
(* Condition compiler: the body of the slot loop *)

\* the options of list(parameters.items()) + list(environments.items()), in order
RECURSIVE options_of(_)
options_of(gs) ==
    IF gs = <<>> THEN <<>> ELSE Head(gs).val.options \o options_of(Tail(gs))

RECURSIVE emit_conditions(_, _, _, _, _)
\* c = [err, r]: the exception raised so far ("" when none) and the registry
emit_conditions(c, options, slot, p2o, strict) ==
    IF options = <<>> \/ c.err # "" THEN c
    ELSE LET o == Head(options)
         IN  IF o.condition = <<>>
             THEN emit_conditions(c, Tail(options), slot, p2o, strict)
             ELSE LET enc == encode_condition(c.r, o.condition, slot, p2o, strict)
                  IN  IF enc.err # ""
                      THEN [err |-> enc.err, r |-> enc.r]
                      ELSE LET added == add_all(enc.r, enc.cls)
                               ov == opt_var(added, o.name, slot)
                           IN  emit_conditions(
                                   [err |-> "",
                                    r |-> IF enc.top # 0
                                          THEN add(ov.r, <<0 - ov.v, enc.top, 0>>)
                                          ELSE added],
                                   Tail(options), slot, p2o, strict)

-----------------------------------------------------------------------------
(* Coverage encoder *)

RECURSIVE group_lists(_, _)
\* [ self.groups[g] for g in grp_combo ], the combination given by positions
group_lists(gs, combo) ==
    IF combo = <<>> THEN <<>>
    ELSE <<gs[Head(combo)].val>> \o group_lists(gs, Tail(combo))

RECURSIVE enumerate_product(_, _)
\* the loop over itertools.product(*lists); e = [r, cov]
enumerate_product(e, tups) ==
    IF tups = <<>> THEN e
    ELSE LET key == sorted(Head(tups))
         IN  IF KeyPos(e.cov, key) = 0
             THEN LET nv == new_var(e.r, Label("c", key, 0))
                  IN  enumerate_product([r |-> nv.r,
                                         cov |-> Append(e.cov, [key |-> key, val |-> nv.v])],
                                        Tail(tups))
             ELSE enumerate_product(e, Tail(tups))

RECURSIVE enumerate_combos(_, _, _)
\* the loop over itertools.combinations(gnames, self.t)
enumerate_combos(e, gs, combos) ==
    IF combos = <<>> THEN e
    ELSE enumerate_combos(enumerate_product(e, product(group_lists(gs, Head(combos)))),
                          gs, Tail(combos))

\* itertools.combinations raises ValueError for a negative r
enumerate_tuples(r, gs, strength, cov) ==
    IF strength < 0
    THEN [err |-> "ValueError: r must be non-negative", r |-> r, cov |-> cov]
    ELSE LET e == enumerate_combos([r |-> r, cov |-> cov], gs,
                                   combinations(1, Len(gs), strength))
         IN  [err |-> "", r |-> e.r, cov |-> e.cov]

RECURSIVE add_indicator_implies(_, _, _)
\* for v in vids: self.add(-aid, v, 0)
add_indicator_implies(r, aid, vids) ==
    IF vids = <<>> THEN r
    ELSE add_indicator_implies(add(r, <<0 - aid, Head(vids), 0>>), aid, Tail(vids))

RECURSIVE coverage_slots(_, _, _, _)
\* the slot loop of _emit_coverage for one key; c = [r, a_js]
coverage_slots(c, key, slot, slots) ==
    IF slot > slots THEN c
    ELSE LET kv == opt_vars(c.r, key, slot, <<>>)
             aid == fresh_aux(kv.r, "a")
             fwd == add_indicator_implies(aid.r, aid.v, kv.vs)
             bwd == add(fwd, Neg(kv.vs) \o <<aid.v, 0>>)
         IN  coverage_slots([r |-> bwd, a_js |-> Append(c.a_js, aid.v)],
                            key, slot + 1, slots)

\* the body of "for key, cid in self.t_tuple_to_cov.items()"
emit_coverage(r, key, cid, slots, full) ==
    LET c == coverage_slots([r |-> r, a_js |-> <<>>], key, 1, slots)
        up == add(c.r, c.a_js \o <<cid, 0>>)
        down == add(up, <<0 - cid>> \o c.a_js \o <<0>>)
    IN  IF full THEN add(down, <<cid, 0>>) ELSE down

-----------------------------------------------------------------------------
(* Serializer: " ".join(str(x) for x in c), a line as its sequence of tokens *)

str(x) == ToString(x)

serialize(r) ==
    [nvars |-> r.next_var - 1,
     nclauses |-> Len(r.clauses),
     body |-> [i \in DOMAIN r.clauses |->
                  [m \in DOMAIN r.clauses[i] |-> str(r.clauses[i][m])]],
     id_to_name |-> r.id_to_name]

NoOutput == [nvars |-> 0, nclauses |-> 0, body |-> <<>>, id_to_name |-> EmptyFn]

-----------------------------------------------------------------------------
(* The explored inputs *)

\* guard expressions, character by character
GuardX == <<"X">>
GuardParenX == <<"(", "X", ")">>
GuardNotXAndY == <<"!", "X", " ", "&", "&", " ", "Y">>
GuardXOrY == <<"X", "|", "|", "Y">>
GuardQ == <<"Q">>
GuardBlank == <<" ", " ">>
GuardOpenParen == <<"(", "X">>
GuardCloseParen == <<"X", ")">>
GuardLoneNot == <<"!">>
GuardTwoAtoms == <<"X", " ", "Y">>
GuardPostfixNot == <<"X", " ", "!">>
GuardAtomParens == <<"X", " ", "(", ")">>

Guards ==
    <<GuardX, GuardParenX, GuardNotXAndY, GuardXOrY, GuardQ, GuardBlank,
      GuardOpenParen, GuardCloseParen, GuardLoneNot, GuardTwoAtoms,
      GuardPostfixNot, GuardAtomParens>>

IR(parameters, environments) ==
    [parameters |-> parameters, environments |-> environments]

\* A = {a1}, B = {b1}
IRMinimal == IR(<<Group("A", <<Plain("a1")>>)>>, <<Group("B", <<Plain("b1")>>)>>)

\* A = {a1, a2}, B = {b1, b2}
IRPairwise ==
    IR(<<Group("A", <<Plain("a1"), Plain("a2")>>)>>,
       <<Group("B", <<Plain("b1"), Plain("b2")>>)>>)

\* A = {a1[single], a2[error]}, B = {b1}
IRFlags ==
    IR(<<Group("A", <<Opt("a1", "", NoCond, TRUE, FALSE),
                      Opt("a2", "", NoCond, FALSE, TRUE)>>)>>,
       <<Group("B", <<Plain("b1")>>)>>)

\* X asserted in two groups: A = {a1[X], a2[Y]}, B = {b1[X], b2}
IRProperties ==
    IR(<<Group("A", <<Opt("a1", "X", NoCond, FALSE, FALSE),
                      Opt("a2", "Y", NoCond, FALSE, FALSE)>>)>>,
       <<Group("B", <<Opt("b1", "X", NoCond, FALSE, FALSE), Plain("b2")>>)>>)

\* A = {a1[X], a2[Y]}, B = {b1[if g]}
IRGuarded(g) ==
    IR(<<Group("A", <<Opt("a1", "X", NoCond, FALSE, FALSE),
                      Opt("a2", "Y", NoCond, FALSE, FALSE)>>)>>,
       <<Group("B", <<Opt("b1", "", g, FALSE, FALSE)>>)>>)

\* the group name G in both sections: G = {x[error]} and G = {y[single], z}
IRSameGroupName ==
    IR(<<Group("G", <<Opt("x", "", NoCond, FALSE, TRUE)>>)>>,
       <<Group("G", <<Opt("y", "", NoCond, TRUE, FALSE), Plain("z")>>)>>)

\* the option name a1 in two groups
IRDuplicateOption ==
    IR(<<Group("A", <<Plain("a1")>>)>>, <<Group("B", <<Plain("a1")>>)>>)

\* a group without options
IREmptyGroup == IR(<<Group("A", <<Plain("a1")>>), Group("B", <<>>)>>, <<>>)

IRs ==
    {IRMinimal, IRPairwise, IRFlags, IRProperties, IRSameGroupName,
     IRDuplicateOption, IREmptyGroup}
    \cup { IRGuarded(Guards[i]) : i \in DOMAIN Guards }

Policies == {"auto", "exactly-one", "at-most-one"}

\* the items of the antonyms mapping
AntonymMaps == { <<>>, << <<"X", "Y">>, <<"Y", "X">> >> }

-----------------------------------------------------------------------------
(* The run: build_from_program_config, one step per pass iteration *)

Init ==
    /\ pc = "new"
    /\ j = 1
    /\ ir \in IRs
    /\ t \in (0 - 1)..MaxT
    /\ k \in 0..MaxK
    /\ group_policy \in Policies
    /\ require_full_coverage \in BOOLEAN
    /\ strict_conditions \in BOOLEAN
    /\ antonyms \in AntonymMaps
    /\ clauses = <<>>
    /\ next_var = 1
    /\ name_to_id = EmptyFn
    /\ id_to_name = EmptyFn
    /\ groups = <<>>
    /\ option_to_group = EmptyFn
    /\ property_to_options = <<>>
    /\ option_var_cache = EmptyFn
    /\ property_var_cache = EmptyFn
    /\ t_tuple_to_cov = <<>>
    /\ output = NoOutput
    /\ error = ""

\* r is written back to the registry and the clause accumulator
Store(r) ==
    /\ clauses' = r.clauses
    /\ next_var' = r.next_var
    /\ name_to_id' = r.name_to_id
    /\ id_to_name' = r.id_to_name
    /\ option_var_cache' = r.option_var_cache
    /\ property_var_cache' = r.property_var_cache

registry == <<clauses, next_var, name_to_id, id_to_name, option_var_cache,
              property_var_cache>>

\* cnf_encoder.__init__
Construct ==
    /\ pc = "new"
    /\ LET ix == collect_ir(ir)
       IN  /\ groups' = ix.groups
           /\ option_to_group' = ix.o2g
           /\ property_to_options' = ix.p2o
    /\ pc' = "group"
    /\ j' = 1
    /\ UNCHANGED <<config, registry, t_tuple_to_cov, output, error>>

\* _emit_group_constraints: the pass of slot j, or the end of the loop
EmitGroupConstraints ==
    /\ pc = "group"
    /\ IF j <= k
       THEN /\ Store(emit_group_constraints(Registry, ir, group_policy, groups, j))
            /\ j' = j + 1
            /\ pc' = pc
       ELSE /\ pc' = "props"
            /\ j' = 1
            /\ UNCHANGED registry
    /\ UNCHANGED <<config, index, t_tuple_to_cov, output, error>>

\* _emit_property_links: the pass of slot j, or the end of the loop
EmitPropertyLinks ==
    /\ pc = "props"
    /\ IF j <= k
       THEN /\ Store(emit_property_links(Registry, property_to_options, antonyms, j))
            /\ j' = j + 1
            /\ pc' = pc
       ELSE /\ pc' = "conds"
            /\ j' = 1
            /\ UNCHANGED registry
    /\ UNCHANGED <<config, index, t_tuple_to_cov, output, error>>

\* _emit_conditions: the pass of slot j, which may raise, or the end of the loop
EmitConditions ==
    /\ pc = "conds"
    /\ IF j <= k
       THEN LET c == emit_conditions([err |-> "", r |-> Registry],
                                     options_of(ir.parameters \o ir.environments),
                                     j, property_to_options, strict_conditions)
            IN  /\ Store(c.r)
                /\ error' = c.err
                /\ pc' = IF c.err # "" THEN "error" ELSE pc
                /\ j' = j + 1
       ELSE /\ pc' = "tuples"
            /\ j' = 1
            /\ UNCHANGED <<registry, error>>
    /\ UNCHANGED <<config, index, t_tuple_to_cov, output>>

\* _enumerate_tuples
EnumerateTuples ==
    /\ pc = "tuples"
    /\ LET e == enumerate_tuples(Registry, groups, t, t_tuple_to_cov)
       IN  /\ Store(e.r)
           /\ t_tuple_to_cov' = e.cov
           /\ error' = e.err
           /\ pc' = IF e.err # "" THEN "error" ELSE "cover"
    /\ j' = 1
    /\ UNCHANGED <<config, index, output>>

\* _emit_coverage: the pass of the j-th coverage key, or the end of the loop
EmitCoverage ==
    /\ pc = "cover"
    /\ IF j <= Len(t_tuple_to_cov)
       THEN /\ Store(emit_coverage(Registry, t_tuple_to_cov[j].key, t_tuple_to_cov[j].val,
                                   k, require_full_coverage))
            /\ j' = j + 1
            /\ pc' = pc
       ELSE /\ pc' = "write"
            /\ j' = 1
            /\ UNCHANGED registry
    /\ UNCHANGED <<config, index, t_tuple_to_cov, output, error>>

\* the tail of encode(): the header and the body, returned with the label map
Return ==
    /\ pc = "write"
    /\ output' = serialize(Registry)
    /\ pc' = "done"
    /\ UNCHANGED <<j, config, index, registry, t_tuple_to_cov, error>>

Next ==
    \/ Construct
    \/ EmitGroupConstraints
    \/ EmitPropertyLinks
    \/ EmitConditions
    \/ EnumerateTuples
    \/ EmitCoverage
    \/ Return

Spec == Init /\ [][Next]_vars

-----------------------------------------------------------------------------
(* Reading the returned artifact as a CNF formula *)

\* the integer a DIMACS token denotes
ParseInt(tok, n) == CHOOSE i \in (0 - n)..n : ToString(i) = tok

\* the literals of a clause line: the tokens before the first "0"
LineLits(line, n) ==
    LET stop == IF \E m \in DOMAIN line : line[m] = "0"
                THEN CHOOSE m \in DOMAIN line :
                         line[m] = "0" /\ \A m2 \in 1..(m - 1) : line[m2] # "0"
                ELSE Len(line) + 1
    IN  { ParseInt(line[m], n) : m \in 1..(stop - 1) }

\* the clauses of the artifact, each the set of its literals
Formula == { LineLits(output.body[i], output.nvars) : i \in DOMAIN output.body }

Abs(x) == IF x < 0 THEN 0 - x ELSE x

\* the clauses cs after literal l is made true
Assign(cs, l) == { c \ {0 - l} : c \in { d \in cs : l \notin d } }

RECURSIVE Solve(_, _, _)
\* the models of cs that extend the true set T over the unassigned variables U
Solve(cs, T, U) ==
    IF {} \in cs THEN {}
    ELSE IF cs = {} THEN { T \cup S : S \in SUBSET U }
    ELSE LET c == IF \E u \in cs : Cardinality(u) = 1
                  THEN CHOOSE u \in cs : Cardinality(u) = 1
                  ELSE CHOOSE u \in cs : TRUE
             l == CHOOSE l \in c : TRUE
         IN  Solve(Assign(cs, l), IF l > 0 THEN T \cup {l} ELSE T, U \ {Abs(l)})
             \cup Solve(Assign(cs, 0 - l), IF l < 0 THEN T \cup {0 - l} ELSE T, U \ {Abs(l)})

\* the satisfying assignments of the clause set cs over the variables V,
\* each given as the set of its true variables
ModelsOf(cs, V) == Solve(cs, {}, V)

\* the satisfying assignments of the returned formula
Models == ModelsOf(Formula, 1..output.nvars)

\* the variable of option o, of property prop, in a slot; 0 when it has none
V(o, slot) ==
    IF <<o, slot>> \in DOMAIN option_var_cache THEN option_var_cache[<<o, slot>>] ELSE 0

P(prop, slot) ==
    IF <<prop, slot>> \in DOMAIN property_var_cache
    THEN property_var_cache[<<prop, slot>>] ELSE 0

-----------------------------------------------------------------------------
(* The inputs the specification admits *)

\* the groups the index is built from: parameters, then environments
AllGroups == DictUpdate(DictUpdate(<<>>, ir.parameters), ir.environments)

DuplicateOption ==
    \E g, h \in DOMAIN AllGroups :
        /\ g # h
        /\ \E a \in DOMAIN AllGroups[g].val.options :
           \E b \in DOMAIN AllGroups[h].val.options :
               AllGroups[g].val.options[a].name = AllGroups[h].val.options[b].name

EmptyGroup == \E g \in DOMAIN AllGroups : AllGroups[g].val.options = <<>>

InvalidConfig == t <= 0 \/ k <= 0 \/ t > Len(AllGroups)

ValidInput == ~InvalidConfig /\ ~DuplicateOption /\ ~EmptyGroup

-----------------------------------------------------------------------------
(* C1: coverage soundness and completeness *)

\* tuple key is realized by slot in the assignment M
Realized(M, key, slot) == \A i \in DOMAIN key : V(key[i], slot) \in M

\* C1: for an admitted input, in every satisfying assignment of the returned
\* formula the coverage variable of every coverage key is true if and only
\* if some slot in 1..k has all the options of the key true.
C1_CoverageIff ==
    pc = "done" /\ ValidInput =>
        \A M \in Models : \A i \in DOMAIN t_tuple_to_cov :
            (t_tuple_to_cov[i].val \in M)
                <=> (\E slot \in 1..k : Realized(M, t_tuple_to_cov[i].key, slot))

-----------------------------------------------------------------------------
(* C2: guards compile to v(o,j) -> phi *)

Operators == {"!", "&&", "||", "(", ")"}

Failed == [ok |-> FALSE, val |-> FALSE, rest |-> <<>>]

RECURSIVE ParseOr(_, _), OrTail(_, _, _), ParseAnd(_, _), AndTail(_, _, _), ParseNot(_, _)
\* The infix grammar of guards, read by recursive descent, with the value of
\* the expression when exactly the atoms in env are true:
\*   or ::= and ("||" and)*    and ::= not ("&&" not)*
\*   not ::= "!" not | "(" or ")" | identifier
ParseNot(toks, env) ==
    IF toks = <<>> THEN Failed
    ELSE IF Head(toks) = "!"
    THEN LET e == ParseNot(Tail(toks), env)
         IN  [ok |-> e.ok, val |-> ~e.val, rest |-> e.rest]
    ELSE IF Head(toks) = "("
    THEN LET e == ParseOr(Tail(toks), env)
         IN  IF e.ok /\ e.rest # <<>> /\ Head(e.rest) = ")"
             THEN [ok |-> TRUE, val |-> e.val, rest |-> Tail(e.rest)]
             ELSE Failed
    ELSE IF Head(toks) \in Operators THEN Failed
    ELSE [ok |-> TRUE, val |-> Head(toks) \in env, rest |-> Tail(toks)]

AndTail(acc, toks, env) ==
    IF toks # <<>> /\ Head(toks) = "&&"
    THEN LET e == ParseNot(Tail(toks), env)
         IN  IF e.ok THEN AndTail(acc /\ e.val, e.rest, env) ELSE Failed
    ELSE [ok |-> TRUE, val |-> acc, rest |-> toks]

ParseAnd(toks, env) ==
    LET e == ParseNot(toks, env)
    IN  IF e.ok THEN AndTail(e.val, e.rest, env) ELSE Failed

OrTail(acc, toks, env) ==
    IF toks # <<>> /\ Head(toks) = "||"
    THEN LET e == ParseAnd(Tail(toks), env)
         IN  IF e.ok THEN OrTail(acc \/ e.val, e.rest, env) ELSE Failed
    ELSE [ok |-> TRUE, val |-> acc, rest |-> toks]

ParseOr(toks, env) ==
    LET e == ParseAnd(toks, env)
    IN  IF e.ok THEN OrTail(e.val, e.rest, env) ELSE Failed

WellFormed(toks) == ParseOr(toks, {}).ok /\ ParseOr(toks, {}).rest = <<>>

Holds(toks, env) == ParseOr(toks, env).val

Atoms(toks) == Range(toks) \ Operators

\* the option records of the IR that carry a guard that is not blank
GuardedOptions ==
    { o \in Range(options_of(ir.parameters \o ir.environments)) :
        strip(o.condition) # <<>> }

GuardTokens(o) == tokenize(strip(o.condition))

Declared == { property_to_options[i].key : i \in DOMAIN property_to_options }

CompileErrors ==
    {"ValueError: mismatched parens in condition",
     "ValueError: mismatched ) in condition",
     "ValueError: invalid condition expression",
     "IndexError: pop from empty list",
     "TypeError: _fresh_aux() missing 1 required positional argument"}

\* C2: for an admitted input, a well-formed guard phi on option o is compiled,
\* without a compile error, to clauses under which, in every slot, the models are those of
\* v(o,j) -> phi; so in every model of the returned formula an option that is
\* chosen in a slot has its guard true of that slot's property variables
\* (for "!X && Y": p(X,j) false and p(Y,j) true).
C2_GuardImplied ==
    \A o \in GuardedOptions :
        ValidInput /\ WellFormed(GuardTokens(o)) =>
            /\ error \notin CompileErrors
            /\ pc = "done" =>
                   \A M \in Models : \A slot \in 1..k :
                       V(o.name, slot) \in M =>
                           Holds(GuardTokens(o),
                                 { a \in Atoms(GuardTokens(o)) : P(a, slot) \in M })

-----------------------------------------------------------------------------
(* C3: group constraints *)

\* the record of group gname that the index was built from: of the two
\* sections the later one wins
IndexedGroup(gname) == AllGroups[KeyPos(AllGroups, gname)].val

ClaimedPolicy(gname) ==
    IF group_policy = "auto"
    THEN IF \E i \in DOMAIN IndexedGroup(gname).options :
               IndexedGroup(gname).options[i].single
         THEN "exactly-one" ELSE "at-most-one"
    ELSE group_policy

\* the slots whose group constraints have been emitted
GroupSlotsDone == IF pc = "new" THEN {} ELSE IF pc = "group" THEN 1..(j - 1) ELSE 1..k

KVars(opts, slot) == [i \in DOMAIN opts |-> option_var_cache[<<opts[i], slot>>]]

\* C3: for every slot and group the emitter has passed, the accumulator holds
\* the at-most-one clause of every pair of the group's options, and holds the
\* at-least-one clause over the group's options exactly when the policy is
\* exactly-one, which under auto means that some option of the group carries
\* single.
C3_GroupClauses ==
    \A slot \in GroupSlotsDone : \A g \in DOMAIN groups :
        LET opts == groups[g].val
            kvars == KVars(opts, slot)
        IN  /\ \A a, b \in DOMAIN opts :
                   a < b => <<0 - kvars[a], 0 - kvars[b], 0>> \in Range(clauses)
            /\ (ClaimedPolicy(groups[g].key) = "exactly-one")
                   <=> (kvars \o <<0>>) \in Range(clauses)

-----------------------------------------------------------------------------
(* C4: property bi-implication *)

Asserters(prop) ==
    IF KeyPos(property_to_options, prop) = 0 THEN <<>>
    ELSE property_to_options[KeyPos(property_to_options, prop)].val

AsserterChosen(M, prop, slot) ==
    \E i \in DOMAIN Asserters(prop) : V(Asserters(prop)[i], slot) \in M

\* C4 as stated: for an admitted input, in every satisfying assignment of the
\* returned formula, every property-slot variable of the formula is true if and only if an
\* option asserting the property is true in the slot.
C4_EveryPropertyVar ==
    pc = "done" /\ ValidInput =>
        \A M \in Models : \A ps \in DOMAIN property_var_cache :
            (property_var_cache[ps] \in M) <=> AsserterChosen(M, ps[1], ps[2])

\* C4 as amended: in every satisfying assignment of the returned formula, for
\* every property that some option asserts and every slot in 1..k, the
\* property-slot variable is true if and only if an option asserting the
\* property is true in the slot.
C4_DeclaredPropertyIff ==
    pc = "done" /\ Declared # {} =>
        \A M \in Models : \A prop \in Declared : \A slot \in 1..k :
            (P(prop, slot) \in M) <=> AsserterChosen(M, prop, slot)

\* a returned formula with a model in which a declared property holds in a
\* slot, and one in which it does not
C4_Witness ==
    /\ pc = "done"
    /\ \E prop \in Declared : \E slot \in 1..k :
           /\ \E M \in Models : P(prop, slot) \in M
           /\ \E M \in Models : P(prop, slot) \notin M

-----------------------------------------------------------------------------
(* C5: without the full-coverage goal the coverage clauses force nothing *)

\* the indicator and coverage variables of the artifact
CoverageVars ==
    { v \in DOMAIN output.id_to_name : output.id_to_name[v].kind \in {"a", "c"} }

BaseVars == (1..output.nvars) \ CoverageVars

\* the group, property and condition clauses: those without a coverage variable
BaseClauses == { c \in Formula : \A l \in c : Abs(l) \notin CoverageVars }

\* C5: for an admitted input with require_full_coverage false, the returned
\* formula has no unit clause on a coverage variable, and every assignment of
\* the option, property and Tseitin variables that satisfies the group,
\* property and condition clauses is the restriction of a model of the formula.
C5_CoverageFree ==
    pc = "done" /\ ValidInput /\ ~require_full_coverage =>
        /\ \A i \in DOMAIN t_tuple_to_cov : {t_tuple_to_cov[i].val} \notin Formula
        /\ \A B \in ModelsOf(BaseClauses, BaseVars) :
               \E M \in Models : M \cap BaseVars = B

-----------------------------------------------------------------------------
(* C6: id contiguity and header agreement *)

\* C6: in every artifact returned for an IR without duplicate options or empty
\* groups, the variable ids that occur in the clause lines are exactly 1..nvars
\* of the header, and nclauses of the header is the number of clause lines.
C6_IdsContiguous ==
    pc = "done" /\ ~DuplicateOption /\ ~EmptyGroup =>
        /\ { Abs(l) : l \in UNION Formula } = 1..output.nvars
        /\ output.nclauses = Len(output.body)

-----------------------------------------------------------------------------
(* C7: clause well-formedness in memory *)

\* C7 as stated: every clause in the accumulator is a non-empty list of
\* non-zero ids of absolute value at most the number of ids allocated so far.
C7_NoZeroInMemory ==
    \A i \in DOMAIN clauses :
        /\ clauses[i] # <<>>
        /\ \A m \in DOMAIN clauses[i] :
               clauses[i][m] # 0 /\ Abs(clauses[i][m]) <= next_var - 1

\* the only clause without a literal: at-least-one over a group with no options
EmptyAtLeastOne == group_policy = "exactly-one" /\ EmptyGroup

\* C7 as amended: every clause in the accumulator is a list that ends with the
\* terminator 0, stored in memory by add(); every element before it is a
\* non-zero id of absolute value at most the number of ids allocated so far,
\* and there is at least one unless the clause is the at-least-one clause of a
\* group without options; the serializer writes the list as it is and adds
\* no terminator.
C7_TerminatorInMemory ==
    /\ \A i \in DOMAIN clauses :
           /\ clauses[i] # <<>>
           /\ Last(clauses[i]) = 0
           /\ \A m \in 1..(Len(clauses[i]) - 1) :
                  clauses[i][m] # 0 /\ Abs(clauses[i][m]) <= next_var - 1
           /\ Len(clauses[i]) >= 2 \/ EmptyAtLeastOne
    /\ pc = "done" =>
           /\ Len(output.body) = Len(clauses)
           /\ \A i \in DOMAIN clauses :
                  /\ Len(output.body[i]) = Len(clauses[i])
                  /\ Last(output.body[i]) = "0"

\* the accumulator holds two-literal and three-literal clauses at the return
C7_Witness ==
    /\ pc = "done"
    /\ \E i \in DOMAIN clauses : Len(clauses[i]) = 3
    /\ \E i \in DOMAIN clauses : Len(clauses[i]) = 4
    /\ Len(output.body) > 0

-----------------------------------------------------------------------------
(* C8: configuration errors *)

\* C8: when t or k is not positive, or t exceeds the number of groups, the
\* encoder returns no artifact (shown on IRs without duplicate options or
\* empty groups).
C8_ConfigRejected == InvalidConfig /\ ~DuplicateOption /\ ~EmptyGroup => pc # "done"

-----------------------------------------------------------------------------
(* C9: malformed IR *)

\* C9: when an option name appears in two groups or a group has no options,
\* building the index fails: the run never gets past the constructor.
C9_IndexRejects == DuplicateOption \/ EmptyGroup => pc \in {"new", "error"}

-----------------------------------------------------------------------------
(* C10: condition syntax errors *)

\* C10: for an admitted input, a guard that is not blank and not a well-formed
\* infix formula makes the condition pass abort: the run never reaches tuple
\* enumeration, and nothing is returned.
C10_IllFormedAborts ==
    ValidInput /\ (\E o \in GuardedOptions : ~WellFormed(GuardTokens(o)))
        => pc \notin {"tuples", "cover", "write", "done"}

-----------------------------------------------------------------------------
(* C11: the identifiers the tokenizer returns *)

\* the characters guards are drawn from, and the guards of at most MaxLen of them
Alphabet == {"X", "&", "|", "!", "(", ")", " "}

Strings == UNION { [1..n -> Alphabet] : n \in 0..MaxLen }

\* the run over every guard in Strings, on the option b1 of a fixed IR, with
\* one slot and lenient atoms
InitTok ==
    /\ pc = "new"
    /\ j = 1
    /\ ir \in { IRGuarded(g) : g \in Strings }
    /\ t = 1
    /\ k = 1
    /\ group_policy = "auto"
    /\ require_full_coverage = FALSE
    /\ strict_conditions = FALSE
    /\ antonyms = <<>>
    /\ clauses = <<>>
    /\ next_var = 1
    /\ name_to_id = EmptyFn
    /\ id_to_name = EmptyFn
    /\ groups = <<>>
    /\ option_to_group = EmptyFn
    /\ property_to_options = <<>>
    /\ option_var_cache = EmptyFn
    /\ property_var_cache = EmptyFn
    /\ t_tuple_to_cov = <<>>
    /\ output = NoOutput
    /\ error = ""

SpecTok == InitTok /\ [][Next]_vars

\* the condition pass has handled slot 1, so every guard has been tokenized
ConditionsPassed ==
    \/ pc \in {"tuples", "cover", "write", "done"}
    \/ pc = "conds" /\ j > 1
    \/ pc = "error" /\ error # "ValueError: r must be non-negative"

\* the strings handed to the tokenizer: the guard as written and as stripped
TokenizerInputs ==
    UNION { {o.condition, strip(o.condition)} :
              o \in Range(options_of(ir.parameters \o ir.environments)) }

\* position i of s lies in an operator "&&" or "||": in a maximal run of one
\* of the two characters, the characters pair up from the left
InOperator(s, i) ==
    /\ s[i] \in {"&", "|"}
    /\ LET first == CHOOSE p \in 1..i :
                        /\ \A q \in p..i : s[q] = s[i]
                        /\ p = 1 \/ s[p - 1] # s[i]
           last == CHOOSE e \in i..Len(s) :
                       /\ \A q \in i..e : s[q] = s[i]
                       /\ e = Len(s) \/ s[e + 1] # s[i]
       IN  i - first < 2 * ((last - first + 1) \div 2)

\* the identifier characters of s: not whitespace, not "!", "(" or ")", and
\* not part of an operator
IdentChars(s) ==
    { i \in DOMAIN s :
        ~IsSpace(s[i]) /\ s[i] \notin {"!", "(", ")"} /\ ~InOperator(s, i) }

RECURSIVE StatedIdentChar(_, _)
\* the identifier characters of s as C11 states them: "!", "(" and ")" too,
\* where they do not start the run
StatedIdentChar(s, i) ==
    /\ ~IsSpace(s[i])
    /\ ~InOperator(s, i)
    /\ s[i] \in {"!", "(", ")"} => i > 1 /\ StatedIdentChar(s, i - 1)

StatedIdentChars(s) == { i \in DOMAIN s : StatedIdentChar(s, i) }

RECURSIVE MaximalRuns(_, _, _)
\* the maximal runs of positions of pos in s from position i on, as strings, in order
MaximalRuns(s, pos, i) ==
    IF i > Len(s) THEN <<>>
    ELSE IF i \notin pos THEN MaximalRuns(s, pos, i + 1)
    ELSE LET e == CHOOSE e \in i..Len(s) :
                      /\ \A q \in i..e : q \in pos
                      /\ e = Len(s) \/ (e + 1) \notin pos
         IN  <<Slice(s, i, e + 1)>> \o MaximalRuns(s, pos, e + 1)

IsIdentifier(tk) == tk \notin Operators

IdentifierTokens(toks) == SelectSeq(toks, IsIdentifier)

\* C11 as stated: the identifier tokens of every input are the maximal runs of
\* non-whitespace characters that do not start with "!", "(" or ")" and hold no
\* "&&" or "||"; a "!", "(" or ")" after the first character stays inside.
C11_PunctuationInside ==
    ConditionsPassed =>
        \A s \in TokenizerInputs :
            IdentifierTokens(tokenize(s)) = MaximalRuns(s, StatedIdentChars(s), 1)

\* C11 as amended: the identifier tokens of every input are, in order, the
\* maximal runs of characters that are not whitespace, not "!", "(" or ")",
\* and not part of an operator "&&" or "||"; a single "&" or "|" stays inside
\* the identifier, while "!", "(" and ")" end it wherever they stand.
C11_IdentifierRuns ==
    ConditionsPassed =>
        \A s \in TokenizerInputs :
            IdentifierTokens(tokenize(s)) = MaximalRuns(s, IdentChars(s), 1)

\* the guard "X&X!" has been tokenized: a single "&" inside an identifier and
\* a "!" that ends it
C11_Witness ==
    /\ ConditionsPassed
    /\ <<"X", "&", "X", "!">> \in TokenizerInputs
    /\ tokenize(<<"X", "&", "X", "!">>) = <<"X&X", "!">>

====
